---- MODULE Spec2Model ----
(***************************************************************************)
(* Model of the scheduling engine of src/src/components/scheduler.py:      *)
(* interval merging, availability projection, busy-interval resolution,    *)
(* free-slot solving, priority scoring and the two-phase run slot_tasks.   *)
(*                                                                         *)
(* Time is counted in ticks.  One tick stands for the minute of an         *)
(* estimate and for the resolution of a datetime; a calendar day has       *)
(* DayLen ticks, so that the date of instant t is t \div DayLen, midnight  *)
(* of date d is d * DayLen and time.max of date d (the last representable  *)
(* instant of the day) is d * DayLen + DayLen - 1.  Date 0 is a Monday.    *)
(***************************************************************************)
EXTENDS Integers, Sequences, FiniteSets, TLC

\* ------------------------------------------------------------------ bounds
DayLen == 5          \* ticks per calendar day
MaxTodos == 2        \* TODO tasks in the store
MaxEvents == 2       \* EVENT tasks in the store
MaxDayOffset == 15   \* day offsets the calendar still represents (date.max)
MaxIntervals == 3    \* intervals, or rows, in the arguments of one function call

\* ------------------------------------------------------- program constants
NULL == -1           \* None / SQL NULL of a nullable column
WeekLen == 7         \* date.weekday() ranges over 0..6

Max(a, b) == IF a >= b THEN a ELSE b
Min(a, b) == IF a <= b THEN a ELSE b

\* datetime.date(): the calendar date of an instant
DateOf(t) == t \div DayLen
\* datetime.combine(d, time.min)
DayStart(d) == d * DayLen
\* datetime.combine(d, time.max)
DayEnd(d) == d * DayLen + (DayLen - 1)
\* date.weekday()
Weekday(d) == d % WeekLen

\* ------------------------------------------------------- merge_intervals
\* the list reversed instead of sorted: x goes in front
InsertByStart_Front(srt, x) == <<x>> \o srt

\* sorted(intervals, key=lambda x: x[0]) is a stable sort: x goes after
\* every element whose start is <= its own
InsertByStart(srt, x) ==
    LET k == Cardinality({i \in 1..Len(srt) : srt[i][1] <= x[1]})
    IN SubSeq(srt, 1, k) \o <<x>> \o SubSeq(srt, k + 1, Len(srt))

RECURSIVE SortByStart(_)
SortByStart(s) ==
    IF s = <<>> THEN <<>>
    ELSE InsertByStart(SortByStart(SubSeq(s, 1, Len(s) - 1)), s[Len(s)])

\* the test written curr_start < last_end: touching intervals stay apart
Touches_Strict(curr_start, last_end) == curr_start < last_end

\* the test left out: every interval is merged into the first
Touches_Always(curr_start, last_end) == TRUE

\* the test of line 23: curr is merged into the last output interval
Touches(curr_start, last_end) == curr_start <= last_end

RECURSIVE MergeScan(_, _)
MergeScan(merged, rest) ==
    IF rest = <<>> THEN merged
    ELSE LET curr == Head(rest)
             last == merged[Len(merged)]
         IN IF Touches(curr[1], last[2])
            THEN MergeScan([merged EXCEPT ![Len(merged)] =
                               <<last[1], Max(last[2], curr[2])>>], Tail(rest))
            ELSE MergeScan(Append(merged, curr), Tail(rest))

merge_intervals(intervals) ==
    IF intervals = <<>> THEN <<>>
    ELSE LET sorted_int == SortByStart(intervals)
         IN MergeScan(<<sorted_int[1]>>, Tail(sorted_int))

\* ------------------------------------------------------- find_free_slots
\* the inner loop of lines 83-94 for one window, from busy interval i on
RECURSIVE WalkBusy(_, _, _, _)
WalkBusy(cursor, window_end, merged_busy, i) ==
    LET rest == IF cursor < window_end THEN <<<<cursor, window_end>>>> ELSE <<>>
    IN IF i > Len(merged_busy) THEN rest
       ELSE LET busy_start == merged_busy[i][1]
                busy_end == merged_busy[i][2]
            IN IF busy_end <= cursor
               THEN WalkBusy(cursor, window_end, merged_busy, i + 1)
               ELSE IF busy_start >= window_end THEN rest
               ELSE LET emitted == IF busy_start > cursor
                                   THEN <<<<cursor, Min(busy_start, window_end)>>>>
                                   ELSE <<>>
                        cursor2 == Max(cursor, busy_end)
                    IN IF cursor2 >= window_end THEN emitted
                       ELSE emitted \o WalkBusy(cursor2, window_end, merged_busy, i + 1)

\* the loop over the windows left after the first window
SlotsOfWindows_FirstOnly(avail_windows, merged_busy) ==
    IF avail_windows = <<>> THEN <<>>
    ELSE WalkBusy(Head(avail_windows)[1], Head(avail_windows)[2], merged_busy, 1)

RECURSIVE SlotsOfWindows(_, _)
SlotsOfWindows(avail_windows, merged_busy) ==
    IF avail_windows = <<>> THEN <<>>
    ELSE WalkBusy(Head(avail_windows)[1], Head(avail_windows)[2], merged_busy, 1)
         \o SlotsOfWindows(Tail(avail_windows), merged_busy)

\* the busy intervals walked as they come, unmerged and unsorted
find_free_slots_Unmerged(avail_windows, busy_intervals) ==
    SlotsOfWindows(avail_windows, busy_intervals)

\* the windows joined where they touch or overlap before they are walked
find_free_slots_JoinedWindows(avail_windows, busy_intervals) ==
    SlotsOfWindows(merge_intervals(avail_windows), merge_intervals(busy_intervals))

find_free_slots(avail_windows, busy_intervals) ==
    SlotsOfWindows(avail_windows, merge_intervals(busy_intervals))

\* --------------------------------- AvailabilityConfig.get_windows_for_date
\* combine(target_date, start_t), combine(target_date, end_t) of one pair
RECURSIVE CombineWindows(_, _)
CombineWindows(d, pairs) ==
    IF pairs = <<>> THEN <<>>
    ELSE <<<<DayStart(d) + Head(pairs)[1], DayStart(d) + Head(pairs)[2]>>>>
         \o CombineWindows(d, Tail(pairs))

get_windows_for_date(avail, target_date) ==
    LET weekday == Weekday(target_date)
    IN CombineWindows(target_date,
                      IF weekday \in DOMAIN avail THEN avail[weekday] ELSE <<>>)

\* ---------------------------------------------------- find_busy_intervals
\* the filter of the query, lines 58-63
OnDate(t, target_date) ==
    /\ t.start_time /= NULL
    /\ t.end_time /= NULL
    /\ t.start_time < DayEnd(target_date)
    /\ t.end_time > DayStart(target_date)

\* the interval of a task as it is, not clipped
Clip_Unclipped(t, target_date) == <<t.start_time, t.end_time>>

\* lines 66-68: the interval of a task clipped to the day
Clip(t, target_date) ==
    <<Max(t.start_time, DayStart(target_date)), Min(t.end_time, DayEnd(target_date))>>

\* the query restricted to EVENT rows: placed TODOs are not busy time
BusyKinds_EventsOnly == {"EVENT"}

\* which kinds of task the query of find_busy_intervals returns
BusyKinds == {"EVENT", "TODO"}

RECURSIVE ClippedFrom(_, _, _, _)
ClippedFrom(store, kinds, target_date, i) ==
    IF i > Len(store) THEN <<>>
    ELSE (IF store[i].type \in kinds /\ OnDate(store[i], target_date)
          THEN <<Clip(store[i], target_date)>> ELSE <<>>)
         \o ClippedFrom(store, kinds, target_date, i + 1)

\* in store order (ascending id), unmerged and unsorted
find_busy_intervals(store, target_date) ==
    ClippedFrom(store, BusyKinds, target_date, 1)

\* ------------------------------------------------- compute_priority_score
DefaultPriorityWeight == 1      \* weights.get('priority', 1.0)
DefaultDeadlineWeight == 0      \* weights.get('deadline', 0.0)

\* the minutes to the deadline taken as they are, with no floor
ClampMinutes_None(delta_minutes) == delta_minutes

\* line 106: max(delta_minutes, 1)
ClampMinutes(delta_minutes) == Max(delta_minutes, 1)

Weight(weights, key, default) ==
    IF key \in DOMAIN weights THEN weights[key] ELSE default

\* the score as an exact fraction <<numerator, denominator>>, denominator > 0.
\* The only other weighted field of the model is the numeric column estimate.
compute_priority_score(task, now_, weights_) ==
    LET base == (IF task.priority = NULL THEN 0 ELSE task.priority)
                * Weight(weights_, "priority", DefaultPriorityWeight)
        extra == IF "estimate" \in DOMAIN weights_ /\ task.estimate /= NULL
                 THEN task.estimate * weights_["estimate"] ELSE 0
    IN IF task.deadline /= NULL
       THEN LET delta_minutes == ClampMinutes(task.deadline - now_)
            IN <<(base + extra) * delta_minutes
                   + Weight(weights_, "deadline", DefaultDeadlineWeight),
                 delta_minutes>>
       ELSE <<base + extra, 1>>

\* a >= b for two scores
ScoreGeq(a, b) == a[1] * b[2] >= b[1] * a[2]
ScoreGt(a, b) == a[1] * b[2] > b[1] * a[2]

\* the sort without reverse=True: ascending score
InsertByScore_Ascending(srt, id, store, now_, weights_) ==
    LET sc(i) == compute_priority_score(store[i], now_, weights_)
        k == Cardinality({j \in 1..Len(srt) : ScoreGeq(sc(id), sc(srt[j]))})
    IN SubSeq(srt, 1, k) \o <<id>> \o SubSeq(srt, k + 1, Len(srt))

\* sorted(todos, key=score, reverse=True) is stable: a task goes after every
\* task whose score is >= its own
InsertByScore(srt, id, store, now_, weights_) ==
    LET sc(i) == compute_priority_score(store[i], now_, weights_)
        k == Cardinality({j \in 1..Len(srt) : ScoreGeq(sc(srt[j]), sc(id))})
    IN SubSeq(srt, 1, k) \o <<id>> \o SubSeq(srt, k + 1, Len(srt))

RECURSIVE SortByScore(_, _, _, _)
SortByScore(ids, store, now_, weights_) ==
    IF ids = <<>> THEN <<>>
    ELSE InsertByScore(SortByScore(SubSeq(ids, 1, Len(ids) - 1), store, now_, weights_),
                       ids[Len(ids)], store, now_, weights_)

\* the query narrowed to the TODOs that have no scheduled_for
RECURSIVE TodoIdsFrom_Unscheduled(_, _)
TodoIdsFrom_Unscheduled(store, i) ==
    IF i > Len(store) THEN <<>>
    ELSE (IF store[i].type = "TODO" /\ store[i].scheduled_for = NULL
          THEN <<i>> ELSE <<>>) \o TodoIdsFrom_Unscheduled(store, i + 1)

\* db.query(Task).filter(Task.type == TODO).all(): the ids in store order
RECURSIVE TodoIdsFrom(_, _)
TodoIdsFrom(store, i) ==
    IF i > Len(store) THEN <<>>
    ELSE (IF store[i].type = "TODO" THEN <<i>> ELSE <<>>) \o TodoIdsFrom(store, i + 1)

\* ------------------------------------------------------------- slot_tasks
\* est = task.estimate or 0
Est(task) == IF task.estimate = NULL THEN 0 ELSE task.estimate

\* the Reset that clears scheduled_for and leaves the times
ClearSchedule_KeepTimes(task) == [task EXCEPT !.scheduled_for = NULL]

\* the Reset that wipes the deadline along with the schedule
ClearSchedule_WithDeadline(task) ==
    [task EXCEPT !.scheduled_for = NULL, !.start_time = NULL, !.end_time = NULL,
                 !.deadline = NULL]

\* lines 136-138: the three scheduling fields of a TODO are cleared
ClearSchedule(task) ==
    [task EXCEPT !.scheduled_for = NULL, !.start_time = NULL, !.end_time = NULL]

\* the test written now > ddl: a deadline equal to `now` is not expired
Expired_Strict(task, now_) == task.deadline /= NULL /\ now_ > task.deadline

\* the test written not ddl or now >= ddl: a task without deadline counts
\* as expired
Expired_OrNoDeadline(task, now_) == task.deadline = NULL \/ now_ >= task.deadline

\* line 157: ddl and now >= ddl
Expired(task, now_) == task.deadline /= NULL /\ now_ >= task.deadline

\* the test left out: the scan goes on past the date of the deadline
PastDeadlineDate_Never(task, target_date) == FALSE

\* line 166: ddl and target_date > ddl.date()
PastDeadlineDate(task, target_date) ==
    task.deadline /= NULL /\ target_date > DateOf(task.deadline)

\* lines 172-175: today's windows trimmed to the future
RECURSIVE TrimToNow(_, _)
TrimToNow(windows, now_) ==
    IF windows = <<>> THEN <<>>
    ELSE (IF Head(windows)[2] > now_
          THEN <<<<Max(Head(windows)[1], now_), Head(windows)[2]>>>> ELSE <<>>)
         \o TrimToNow(Tail(windows), now_)

\* lines 169-175: the windows of the date at day_offset
WindowsAt(avail, now_, offset) ==
    LET target_date == DateOf(now_ + offset * DayLen)
        windows == get_windows_for_date(avail, target_date)
    IN IF offset = 0 THEN TrimToNow(windows, now_) ELSE windows

\* the deadline test left out
MeetsDeadline_Ignored(end_candidate, ddl) == TRUE

\* line 186: the candidate finishes by the exact deadline
MeetsDeadline(end_candidate, ddl) == ddl = NULL \/ end_candidate <= ddl

\* the slot test left out
FitsSlot_Ignored(end_candidate, slot_end) == TRUE

\* line 188: the candidate fits inside the slot
FitsSlot(end_candidate, slot_end) == end_candidate <= slot_end

\* the index of the last accepted free slot, 0 when none is
RECURSIVE FirstFit_Last(_, _, _, _, _)
FirstFit_Last(free_slots, i, est, ddl, now_) ==
    IF i > Len(free_slots) THEN 0
    ELSE LET later == FirstFit_Last(free_slots, i + 1, est, ddl, now_)
             end_candidate == Max(free_slots[i][1], now_) + est
         IN IF later /= 0 THEN later
            ELSE IF MeetsDeadline(end_candidate, ddl) /\ FitsSlot(end_candidate, free_slots[i][2])
                 THEN i ELSE 0

\* lines 182-195: the index of the first accepted free slot, 0 when none is
RECURSIVE FirstFit(_, _, _, _, _)
FirstFit(free_slots, i, est, ddl, now_) ==
    IF i > Len(free_slots) THEN 0
    ELSE LET start_time == Max(free_slots[i][1], now_)
             end_candidate == start_time + est
         IN IF MeetsDeadline(end_candidate, ddl) /\ FitsSlot(end_candidate, free_slots[i][2])
            THEN i
            ELSE FirstFit(free_slots, i + 1, est, ddl, now_)

\* lines 206-219: today's EVENT intervals, clipped to today
EventBusy(store, today) == ClippedFrom(store, {"EVENT"}, today, 1)

\* the chain started at `now` whatever today's events
OverflowPointer_Now(store, now_) == now_

\* the pointer taken from the first merged interval, merged_busy[0][1]
OverflowPointer_FirstEnd(store, now_) ==
    LET merged_busy == merge_intervals(ClippedFrom(store, {"EVENT"}, DateOf(now_), 1))
    IN IF merged_busy /= <<>> THEN merged_busy[1][2] ELSE now_

\* lines 220-221: where the overflow chain starts
OverflowPointer(store, now_) ==
    LET merged_busy == merge_intervals(EventBusy(store, DateOf(now_)))
    IN IF merged_busy /= <<>> THEN merged_busy[Len(merged_busy)][2] ELSE now_

\* the placement written without scheduled_for
Place_NoDate(task, start_time, end_time) ==
    [task EXCEPT !.start_time = start_time, !.end_time = end_time]

\* lines 189-191 and 226-228: the placement written to a task
Place(task, start_time, end_time) ==
    [task EXCEPT !.start_time = start_time, !.end_time = end_time,
                 !.scheduled_for = DateOf(start_time)]

\* the failed commit that leaves the start_time of the row behind
FailedCommit_Partial(store, id, row) ==
    [store EXCEPT ![id].start_time = row.start_time]

\* lines 193 and 230, db.commit() raising: the transaction of the one row is
\* not applied, what earlier commits wrote stays, and nothing in slot_tasks
\* catches the exception
FailedCommit(store, id, row) == store

\* the pointer left where it was
AdvancePointer_Stuck(ptr, end_time) == ptr

\* line 231: pointer = task.end_time
AdvancePointer(ptr, end_time) == end_time

\* ------------------------------------------- slot_tasks as one function
\* lines 163-198 for one task: the day scan from `offset` on.  The outcome is
\* <<"place", start, end>>, <<"overflow">> or <<"raise">> (OverflowError).
RECURSIVE DayScan(_, _, _, _, _)
DayScan(store, id, offset, now_, avail) ==
    LET task == store[id]
        target_date == DateOf(now_ + offset * DayLen)
        windows == WindowsAt(avail, now_, offset)
        free_slots == find_free_slots(windows, find_busy_intervals(store, target_date))
        k == FirstFit(free_slots, 1, Est(task), task.deadline, now_)
    IN IF offset > MaxDayOffset THEN <<"raise">>
       ELSE IF PastDeadlineDate(task, target_date) THEN <<"overflow">>
       ELSE IF windows = <<>> THEN DayScan(store, id, offset + 1, now_, avail)
       ELSE IF k = 0 THEN DayScan(store, id, offset + 1, now_, avail)
       ELSE <<"place", Max(free_slots[k][1], now_), Max(free_slots[k][1], now_) + Est(task)>>

\* lines 153-201: the Phase 1 loop from position i of pending on
RECURSIVE Phase1Run(_, _, _, _, _, _)
Phase1Run(store, pend, i, ovf, now_, avail) ==
    IF i > Len(pend) THEN [store |-> store, overflow |-> ovf, raised |-> FALSE]
    ELSE IF Expired(store[pend[i]], now_)
         THEN Phase1Run(store, pend, i + 1, Append(ovf, pend[i]), now_, avail)
    ELSE LET r == DayScan(store, pend[i], 0, now_, avail)
         IN IF r[1] = "raise"
            THEN [store |-> store, overflow |-> ovf, raised |-> TRUE]
            ELSE IF r[1] = "overflow"
            THEN Phase1Run(store, pend, i + 1, Append(ovf, pend[i]), now_, avail)
            ELSE Phase1Run([store EXCEPT ![pend[i]] = Place(store[pend[i]], r[2], r[3])],
                           pend, i + 1, ovf, now_, avail)

\* lines 224-231: the Phase 2 loop from position i of overflow on
RECURSIVE Phase2Run(_, _, _, _)
Phase2Run(store, ovf, i, ptr) ==
    IF i > Len(ovf) THEN store
    ELSE LET end_time == ptr + Est(store[ovf[i]])
         IN Phase2Run([store EXCEPT ![ovf[i]] = Place(store[ovf[i]], ptr, end_time)],
                      ovf, i + 1, AdvancePointer(ptr, end_time))

\* slot_tasks run to its end on `store`, every commit succeeding: the store
\* it leaves, and whether it left through the OverflowError of line 164
RunResult(store, now_, avail, weights_) ==
    LET cleared == [i \in DOMAIN store |->
                       IF store[i].type = "TODO" THEN ClearSchedule(store[i])
                       ELSE store[i]]
        todos == TodoIdsFrom(store, 1)
        p1 == Phase1Run(cleared, SortByScore(todos, cleared, now_, weights_),
                        1, <<>>, now_, avail)
    IN IF todos = <<>> THEN [store |-> cleared, raised |-> FALSE]
       ELSE IF p1.raised THEN [store |-> p1.store, raised |-> TRUE]
       ELSE [store |-> Phase2Run(p1.store, p1.overflow, 1,
                                 OverflowPointer(p1.store, now_)),
             raised |-> FALSE]

\* ------------------------------------------------------------------ state
VARIABLES
    now,            \* the run's fixed `now`
    availability,   \* AvailabilityConfig.availability: weekday -> list of pairs
    weights,        \* the weight map
    tasks,          \* the task store: tasks[id] is the row with that id
    pc,             \* where the run is: start, phase1, phase2, done, raised,
                    \* aborted
    pending,        \* slot_tasks.pending: TODO ids in rank order
    idx,            \* position of the Phase 1 loop in pending
    day_offset,     \* slot_tasks.day_offset of the task at idx
    overflow,       \* slot_tasks.overflow
    pointer,        \* slot_tasks.pointer
    oidx,           \* position of the Phase 2 loop in overflow
    placedBy,       \* per task id, the phase whose commit placed it in this run
    cand,           \* the candidate <<start, end>> that Phase 1 accepted and
                    \* has not committed yet; <<>> when there is none
    other,          \* the locals of a second run against the same store, while
                    \* the first one executes; pc "none" when there is none
    call            \* a call of one of the functions on its own: the function,
                    \* its arguments and, once it has returned, what it returned

vars == <<now, availability, weights, tasks, pc, pending, idx, day_offset,
          overflow, pointer, oidx, placedBy, cand, other, call>>

\* no function called on its own
NoCall == [fn |-> "none", args |-> <<>>, returned |-> FALSE, ret |-> <<>>]

\* no second run
NoRun ==
    [pc |-> "none", pending |-> <<>>, idx |-> 1, day_offset |-> 0,
     overflow |-> <<>>, pointer |-> NULL, oidx |-> 1, placedBy |-> <<>>,
     cand |-> <<>>]

\* ----------------------------------------------------------------- inputs
Today == 1
Nows == {Today * DayLen + 2, Today * DayLen + 3}

SeqsUpTo(S, n) == UNION { [1..k -> S] : k \in 0..n }

\* time-of-day pairs configured for one weekday, in configured order
WindowLists ==
    { <<>>,
      << <<1, 4>> >>,
      << <<3, 4>>, <<0, 3>> >> }
WindowListsNext ==
    { << <<0, 2>> >>,
      << <<1, 2>>, <<3, 4>> >> }

Configs ==
    { <<>> } \cup
    { (Weekday(Today) :> a) @@ (Weekday(Today + 1) :> b) :
          a \in WindowLists, b \in WindowListsNext }

WeightMaps ==
    { ("priority" :> 1) @@ ("deadline" :> 2),
      ("deadline" :> 3) @@ ("estimate" :> 1) }

EventIntervals ==
    { <<Today * DayLen - 1, Today * DayLen + 1>>,
      <<Today * DayLen + 2, Today * DayLen + 3>>,
      <<Today * DayLen + 3, (Today + 1) * DayLen + 1>> }

\* the EVENT rows in store order, which is not chronological: later first
EventSeqs ==
    { s \in SeqsUpTo(EventIntervals, MaxEvents) :
          \A k \in 1..(Len(s) - 1) : s[k][1] > s[k + 1][1] }

EventRow(iv) ==
    [type |-> "EVENT", priority |-> 0, estimate |-> NULL, deadline |-> NULL,
     start_time |-> iv[1], end_time |-> iv[2], scheduled_for |-> NULL]

TodoRow(p, e, d) ==
    [type |-> "TODO", priority |-> p, estimate |-> e, deadline |-> d,
     start_time |-> NULL, end_time |-> NULL, scheduled_for |-> NULL]

\* a TODO as the store can hold it: created through TaskCreate, or an EVENT
\* whose type was patched to TODO (no estimate, no deadline)
TodoRowList ==
    LET soon == Today * DayLen + 2
        later == (Today + 1) * DayLen + 2
    IN << TodoRow(1, 1, later), TodoRow(0, 1, later), TodoRow(1, 2, later),
          TodoRow(0, 2, soon), TodoRow(1, 1, soon),
          TodoRow(0, 2, NULL),
          TodoRow(0, NULL, NULL), TodoRow(1, NULL, soon) >>

TodoRows == {TodoRowList[k] : k \in DOMAIN TodoRowList}

\* the TODO rows in store order (ascending id): a store holds the rows it
\* has in the order of TodoRowList
TodoSeqs ==
    LET at(row) == CHOOSE k \in DOMAIN TodoRowList : TodoRowList[k] = row
    IN { s \in SeqsUpTo(TodoRows, MaxTodos) :
           \A k \in 1..(Len(s) - 1) : at(s[k]) <= at(s[k + 1]) }

\* a TODO that holds a placement of an earlier run
Stale(row) == Place(row, Today * DayLen + 3, Today * DayLen + 3 + Est(row))

Init ==
    /\ now \in Nows
    /\ availability \in Configs
    /\ weights \in WeightMaps
    /\ \E events \in EventSeqs,
          todos \in TodoSeqs,
          stale \in BOOLEAN :
          tasks = [i \in 1..Len(events) |-> EventRow(events[i])]
                  \o [i \in 1..Len(todos) |->
                         IF stale THEN Stale(todos[i]) ELSE todos[i]]
    /\ pc = "start"
    /\ pending = <<>>
    /\ idx = 1
    /\ day_offset = 0
    /\ overflow = <<>>
    /\ pointer = NULL
    /\ oidx = 1
    /\ placedBy = [i \in DOMAIN tasks |-> "none"]
    /\ cand = <<>>
    /\ other = NoRun
    /\ call = NoCall

\* ---------------------------------------------------------------- actions
\* lines 133-149: Reset, commit, early return, rank
Reset ==
    /\ pc = "start"
    /\ tasks' = [i \in DOMAIN tasks |->
                    IF tasks[i].type = "TODO" THEN ClearSchedule(tasks[i]) ELSE tasks[i]]
    /\ LET todos == TodoIdsFrom(tasks, 1)
       IN IF todos = <<>>
          THEN pc' = "done" /\ pending' = <<>>
          ELSE /\ pc' = "phase1"
               /\ pending' = SortByScore(todos, tasks', now, weights)
    /\ UNCHANGED <<call, other, cand, now, availability, weights, idx, day_offset, overflow, pointer,
                   oidx, placedBy>>

\* the task of the current iteration of the Phase 1 loop
InPhase1 == pc = "phase1" /\ idx <= Len(pending) /\ cand = <<>>
Cur == tasks[pending[idx]]
TargetDate == DateOf(now + day_offset * DayLen)
FreeSlotsAt ==
    find_free_slots(WindowsAt(availability, now, day_offset),
                    find_busy_intervals(tasks, TargetDate))
Fit == FirstFit(FreeSlotsAt, 1, Est(Cur), Cur.deadline, now)

ToOverflow ==
    /\ overflow' = Append(overflow, pending[idx])
    /\ idx' = idx + 1
    /\ day_offset' = 0
    /\ UNCHANGED <<call, other, cand, now, availability, weights, tasks, pc, pending, pointer, oidx,
                   placedBy>>

NextDay ==
    /\ day_offset' = day_offset + 1
    /\ UNCHANGED <<call, other, cand, now, availability, weights, tasks, pc, pending, idx, overflow,
                   pointer, oidx, placedBy>>

\* lines 156-159: an expired task goes straight to overflow
Phase1Expired ==
    /\ InPhase1
    /\ day_offset = 0
    /\ Expired(Cur, now)
    /\ ToOverflow

\* line 164: now + timedelta(days=day_offset) leaves the calendar (OverflowError)
ScanOverflowError ==
    /\ InPhase1
    /\ ~Expired(Cur, now)
    /\ day_offset > MaxDayOffset
    /\ pc' = "raised"
    /\ UNCHANGED <<call, other, cand, now, availability, weights, tasks, pending, idx, day_offset,
                   overflow, pointer, oidx, placedBy>>

\* lines 166-167 and 200-201: the scan stops past the deadline's date
ScanPastDeadline ==
    /\ InPhase1
    /\ ~Expired(Cur, now)
    /\ day_offset <= MaxDayOffset
    /\ PastDeadlineDate(Cur, TargetDate)
    /\ ToOverflow

\* lines 176-178: no window on the date
ScanNoWindows ==
    /\ InPhase1
    /\ ~Expired(Cur, now)
    /\ day_offset <= MaxDayOffset
    /\ ~PastDeadlineDate(Cur, TargetDate)
    /\ WindowsAt(availability, now, day_offset) = <<>>
    /\ NextDay

\* lines 180-198, no free slot accepted
ScanNoFit ==
    /\ InPhase1
    /\ ~Expired(Cur, now)
    /\ day_offset <= MaxDayOffset
    /\ ~PastDeadlineDate(Cur, TargetDate)
    /\ WindowsAt(availability, now, day_offset) /= <<>>
    /\ Fit = 0
    /\ NextDay

\* lines 180-195: the first accepted candidate is committed
ScanPlace ==
    /\ InPhase1
    /\ ~Expired(Cur, now)
    /\ day_offset <= MaxDayOffset
    /\ ~PastDeadlineDate(Cur, TargetDate)
    /\ WindowsAt(availability, now, day_offset) /= <<>>
    /\ Fit /= 0
    /\ LET start_time == Max(FreeSlotsAt[Fit][1], now)
           end_candidate == start_time + Est(Cur)
       IN tasks' = [tasks EXCEPT ![pending[idx]] = Place(Cur, start_time, end_candidate)]
    /\ placedBy' = [placedBy EXCEPT ![pending[idx]] = "phase1"]
    /\ idx' = idx + 1
    /\ day_offset' = 0
    /\ UNCHANGED <<call, other, cand, now, availability, weights, pc, pending, overflow, pointer, oidx>>

\* line 193 raising: the commit of a Phase 1 placement fails, the run aborts
ScanPlaceFails ==
    /\ InPhase1
    /\ ~Expired(Cur, now)
    /\ day_offset <= MaxDayOffset
    /\ ~PastDeadlineDate(Cur, TargetDate)
    /\ WindowsAt(availability, now, day_offset) /= <<>>
    /\ Fit /= 0
    /\ LET start_time == Max(FreeSlotsAt[Fit][1], now)
           end_candidate == start_time + Est(Cur)
       IN tasks' = FailedCommit(tasks, pending[idx], Place(Cur, start_time, end_candidate))
    /\ pc' = "aborted"
    /\ UNCHANGED <<call, other, cand, now, availability, weights, pending, idx, day_offset, overflow,
                   pointer, oidx, placedBy>>

\* line 204 with an empty overflow list: the run returns
Phase1Return ==
    /\ pc = "phase1"
    /\ idx > Len(pending)
    /\ overflow = <<>>
    /\ pc' = "done"
    /\ UNCHANGED <<call, other, cand, now, availability, weights, tasks, pending, idx, day_offset,
                   overflow, pointer, oidx, placedBy>>

\* lines 204-221: the pointer is set from today's events
Phase2Start ==
    /\ pc = "phase1"
    /\ idx > Len(pending)
    /\ overflow /= <<>>
    /\ pointer' = OverflowPointer(tasks, now)
    /\ pc' = "phase2"
    /\ UNCHANGED <<call, other, cand, now, availability, weights, tasks, pending, idx, day_offset,
                   overflow, oidx, placedBy>>

\* lines 224-231: one overflow task is placed at the pointer and committed
Phase2Place ==
    /\ pc = "phase2"
    /\ oidx <= Len(overflow)
    /\ LET id == overflow[oidx]
           end_time == pointer + Est(tasks[id])
       IN /\ tasks' = [tasks EXCEPT ![id] = Place(tasks[id], pointer, end_time)]
          /\ placedBy' = [placedBy EXCEPT ![id] = "phase2"]
          /\ pointer' = AdvancePointer(pointer, end_time)
    /\ oidx' = oidx + 1
    /\ pc' = IF oidx = Len(overflow) THEN "done" ELSE "phase2"
    /\ UNCHANGED <<call, other, cand, now, availability, weights, pending, idx, day_offset, overflow>>

\* line 230 raising: the commit of a Phase 2 placement fails, the run aborts
Phase2PlaceFails ==
    /\ pc = "phase2"
    /\ oidx <= Len(overflow)
    /\ LET id == overflow[oidx]
           end_time == pointer + Est(tasks[id])
       IN tasks' = FailedCommit(tasks, id, Place(tasks[id], pointer, end_time))
    /\ pc' = "aborted"
    /\ UNCHANGED <<call, other, cand, now, availability, weights, pending, idx, day_offset, overflow,
                   pointer, oidx, placedBy>>

Next ==
    \/ Reset
    \/ Phase1Expired
    \/ ScanOverflowError
    \/ ScanPastDeadline
    \/ ScanNoWindows
    \/ ScanNoFit
    \/ ScanPlace
    \/ ScanPlaceFails
    \/ Phase1Return
    \/ Phase2Start
    \/ Phase2Place
    \/ Phase2PlaceFails

Spec == Init /\ [][Next]_vars

\* ------------------------------------------- two runs against one store
\* main.py, auto_schedule: a request enqueues a run as a background task,
\* whether or not another run is in flight; the run has locals of its own
auto_schedule ==
    /\ other.pc = "none"
    /\ other' = [pc |-> "start", pending |-> <<>>, idx |-> 1, day_offset |-> 0,
                 overflow |-> <<>>, pointer |-> NULL, oidx |-> 1,
                 placedBy |-> [i \in DOMAIN tasks |-> "none"], cand |-> <<>>]
    /\ UNCHANGED <<call, now, availability, weights, tasks, pc, pending, idx, day_offset,
                   overflow, pointer, oidx, placedBy, cand>>

\* the worker threads of the two background tasks take turns between store
\* operations: the run that executes and the run that waits change places
Switch ==
    /\ other.pc /= "none"
    /\ other' = [pc |-> pc, pending |-> pending, idx |-> idx,
                 day_offset |-> day_offset, overflow |-> overflow,
                 pointer |-> pointer, oidx |-> oidx, placedBy |-> placedBy,
                 cand |-> cand]
    /\ cand' = other.cand
    /\ pc' = other.pc
    /\ pending' = other.pending
    /\ idx' = other.idx
    /\ day_offset' = other.day_offset
    /\ overflow' = other.overflow
    /\ pointer' = other.pointer
    /\ oidx' = other.oidx
    /\ placedBy' = other.placedBy
    /\ UNCHANGED <<call, now, availability, weights, tasks>>

\* lines 180-188 on their own: Phase 1 reads the busy intervals of the date
\* and accepts a candidate; the commit of lines 189-193 is a later store
\* operation, and the other run may write in between
ScanRead ==
    /\ InPhase1
    /\ ~Expired(Cur, now)
    /\ day_offset <= MaxDayOffset
    /\ ~PastDeadlineDate(Cur, TargetDate)
    /\ WindowsAt(availability, now, day_offset) /= <<>>
    /\ Fit /= 0
    /\ LET start_time == Max(FreeSlotsAt[Fit][1], now)
       IN cand' = <<start_time, start_time + Est(Cur)>>
    /\ UNCHANGED <<call, other, now, availability, weights, tasks, pc, pending, idx,
                   day_offset, overflow, pointer, oidx, placedBy>>

\* lines 189-195: the accepted candidate is written and committed
ScanCommit ==
    /\ pc = "phase1"
    /\ cand /= <<>>
    /\ tasks' = [tasks EXCEPT ![pending[idx]] = Place(@, cand[1], cand[2])]
    /\ placedBy' = [placedBy EXCEPT ![pending[idx]] = "phase1"]
    /\ idx' = idx + 1
    /\ day_offset' = 0
    /\ cand' = <<>>
    /\ UNCHANGED <<call, other, now, availability, weights, pc, pending, overflow,
                   pointer, oidx>>

\* the stores and requests of the two-run model
ConcInit ==
    /\ Init
    /\ now = Today * DayLen + 2
    /\ weights = ("priority" :> 1) @@ ("deadline" :> 2)
    /\ availability \in
          { <<>>,
            (Weekday(Today) :> << <<1, 4>> >>) @@ (Weekday(Today + 1) :> << <<0, 2>> >>) }
    /\ \A i \in DOMAIN tasks :
          IF tasks[i].type = "EVENT"
          THEN i = 1 /\ tasks[i].start_time = Today * DayLen + 2
          ELSE tasks[i].start_time = NULL

ConcNext == Next \/ auto_schedule \/ Switch \/ ScanRead \/ ScanCommit

ConcSpec == ConcInit /\ [][ConcNext]_vars

\* ------------------------------------------------- runs that are compared
\* the runs whose end is compared with the end of slot_tasks run as one
\* function (RunResult): every store, EVENT list and availability of Init,
\* at one `now` and under one weight map
ReplanInit ==
    /\ Init
    /\ now = Today * DayLen + 2
    /\ weights = ("priority" :> 1) @@ ("deadline" :> 2)

ReplanSpec == ReplanInit /\ [][Next]_vars

\* --------------------------------------------- the functions on their own
\* merge_intervals, find_free_slots, find_busy_intervals and
\* compute_priority_score called once each, on arguments of their own
runVars == <<now, availability, weights, tasks, pc, pending, idx, day_offset,
             overflow, pointer, oidx, placedBy, cand, other>>

\* the instants that are ends of the intervals of a call, and the intervals:
\* start <= end, of zero length too (a TODO without estimate is placed so)
Instants == 0..MaxIntervals
Intervals == { iv \in Instants \X Instants : iv[1] <= iv[2] }
IntervalLists == SeqsUpTo(Intervals, MaxIntervals)

\* the lists of windows and of busy intervals of one call, in any order,
\* MaxIntervals intervals in all
WindowBusyPairs ==
    UNION { UNION { [1..k -> Intervals] \X [1..j -> Intervals] :
                      j \in 0..(MaxIntervals - k) } :
              k \in 0..MaxIntervals }

\* the rows of a store around the date Today: a task that ends at midnight,
\* one that began the day before, one inside the day, one of zero length,
\* one that ends the day after, one that begins at the last instant of the
\* day, one of the day after, and rows without times
StoreTimes ==
    LET ds == DayStart(Today)
        de == DayEnd(Today)
    IN { <<ds - 1, ds>>, <<ds - 1, ds + 1>>, <<ds + 1, ds + 2>>, <<ds + 2, ds + 2>>,
         <<de - 1, de + 2>>, <<de, de + 1>>, <<de + 1, de + 2>>,
         <<NULL, NULL>>, <<ds + 1, NULL>> }

StoreRow(kind, iv) ==
    [type |-> kind, priority |-> 0, estimate |-> NULL, deadline |-> NULL,
     start_time |-> iv[1], end_time |-> iv[2], scheduled_for |-> NULL]

StoreRows == { StoreRow(kind, iv) : kind \in {"EVENT", "TODO"}, iv \in StoreTimes }

\* the tasks, instants and weight maps of the calls of compute_priority_score
ScoreNow == Today * DayLen + 2
ScoreTasks ==
    { TodoRow(p, e, d) : p \in {NULL, 0, 1, 2}, e \in {NULL, 2},
                         d \in {NULL} \cup ((ScoreNow - 2)..(ScoreNow + 3)) }
ScoreWeightMaps ==
    WeightMaps \cup
    { <<>>, ("deadline" :> 2), ("priority" :> 2), ("priority" :> 0) @@ ("deadline" :> 1),
      ("priority" :> -1) @@ ("deadline" :> -2) }

Calling(fn, args) == [fn |-> fn, args |-> args, returned |-> FALSE, ret |-> <<>>]

FnInit ==
    /\ now = ScoreNow
    /\ availability = <<>>
    /\ weights = <<>>
    /\ tasks = <<>>
    /\ pc = "none"
    /\ pending = <<>>
    /\ idx = 1
    /\ day_offset = 0
    /\ overflow = <<>>
    /\ pointer = NULL
    /\ oidx = 1
    /\ placedBy = <<>>
    /\ cand = <<>>
    /\ other = NoRun
    /\ \/ \E S \in IntervalLists : call = Calling("merge_intervals", <<S>>)
       \/ \E wb \in WindowBusyPairs : call = Calling("find_free_slots", wb)
       \/ \E store \in SeqsUpTo(StoreRows, MaxIntervals) :
              call = Calling("find_busy_intervals", <<store, Today>>)
       \/ \E t \in ScoreTasks, w \in ScoreWeightMaps :
              call = Calling("compute_priority_score", <<t, ScoreNow, w>>)

Returns(fn, value) ==
    /\ call.fn = fn
    /\ ~call.returned
    /\ call' = [call EXCEPT !.returned = TRUE, !.ret = value]
    /\ UNCHANGED runVars

MergeCall == Returns("merge_intervals", merge_intervals(call.args[1]))

FreeSlotsCall ==
    Returns("find_free_slots", find_free_slots(call.args[1], call.args[2]))

BusyCall ==
    Returns("find_busy_intervals", find_busy_intervals(call.args[1], call.args[2]))

ScoreCall ==
    Returns("compute_priority_score",
            compute_priority_score(call.args[1], call.args[2], call.args[3]))

FnNext == MergeCall \/ FreeSlotsCall \/ BusyCall \/ ScoreCall

FnSpec == FnInit /\ [][FnNext]_vars

Returned(fn) == call.fn = fn /\ call.returned

TypeOK ==
    /\ pc \in {"start", "phase1", "phase2", "done", "raised", "aborted"}
    /\ idx \in 1..(Len(pending) + 1)
    /\ oidx \in 1..(Len(overflow) + 1)

\* ----------------------------------------------------------------- claims
TaskIds == DOMAIN tasks
Todos == {i \in TaskIds : tasks[i].type = "TODO"}
Events == {i \in TaskIds : tasks[i].type = "EVENT"}
Placed(i) == tasks[i].start_time /= NULL /\ tasks[i].end_time /= NULL
Phase1Placed == {i \in Todos : placedBy[i] = "phase1"}
Phase2Placed == {i \in Todos : placedBy[i] = "phase2"}
\* two half-open intervals share an instant
Overlap(i, j) ==
    /\ tasks[i].start_time < tasks[j].end_time
    /\ tasks[j].start_time < tasks[i].end_time
Score(i) == compute_priority_score(tasks[i], now, weights)

\* C1: when a run has returned, every TODO has start_time, end_time and
\* scheduled_for set, and was placed by Phase 1 or by Phase 2.
C1_AllPlaced ==
    pc = "done" =>
        \A i \in Todos :
            /\ tasks[i].start_time /= NULL
            /\ tasks[i].end_time /= NULL
            /\ tasks[i].scheduled_for /= NULL
            /\ placedBy[i] \in {"phase1", "phase2"}

\* a returned run that placed one TODO in Phase 1 and another in Phase 2
C1_Witness ==
    /\ pc = "done"
    /\ Phase1Placed /= {}
    /\ Phase2Placed /= {}

\* C2: every run reaches completion, whatever the availability, the events
\* and the TODOs.  A run ends in one of two ways, completed or with the day
\* scan of a TODO run off the calendar, so that every run reaches completion
\* exactly when no run ends the second way.
C2_Terminates == pc /= "raised"

\* C3: after a completed run, a TODO placed by Phase 1 overlaps no EVENT and
\* no other TODO placed by Phase 1.
C3_Phase1NoOverlap ==
    pc = "done" =>
        \A i \in Phase1Placed :
            /\ \A e \in Events : Placed(e) => ~Overlap(i, e)
            /\ \A j \in Phase1Placed \ {i} : ~Overlap(i, j)

\* a Phase 1 TODO of positive length placed right after an EVENT that took
\* the start of its window, and a later-ranked Phase 1 TODO of positive
\* length that had to go after both
C3_Witness ==
    /\ pc = "done"
    /\ \E a, b \in 1..Len(pending), e \in Events :
          /\ a < b
          /\ placedBy[pending[a]] = "phase1"
          /\ placedBy[pending[b]] = "phase1"
          /\ tasks[pending[a]].end_time > tasks[pending[a]].start_time
          /\ tasks[pending[b]].end_time > tasks[pending[b]].start_time
          /\ tasks[pending[a]].start_time = tasks[e].end_time
          /\ tasks[pending[b]].start_time >= tasks[pending[a]].end_time

\* C4: a TODO with a deadline that Phase 1 placed ends at or before the
\* deadline; after a completed run a TODO that ends after its deadline was
\* placed by Phase 2.
C4_Phase1MeetsDeadline ==
    /\ \A i \in Phase1Placed :
          tasks[i].deadline /= NULL => tasks[i].end_time <= tasks[i].deadline
    /\ pc = "done" =>
          \A i \in Todos :
              (tasks[i].deadline /= NULL /\ tasks[i].end_time > tasks[i].deadline)
                  => placedBy[i] = "phase2"

\* a Phase 1 TODO that ends exactly at its deadline, beside an overflow TODO
\* that ends after its own
C4_Witness ==
    /\ pc = "done"
    /\ \E i \in Phase1Placed : tasks[i].end_time = tasks[i].deadline
    /\ \E j \in Phase2Placed : tasks[j].end_time > tasks[j].deadline

\* C5: after a completed run every TODO has end_time - start_time equal to
\* its estimate, and that length is positive.
C5_LengthIsEstimate ==
    pc = "done" =>
        \A i \in Todos :
            /\ tasks[i].end_time - tasks[i].start_time = tasks[i].estimate
            /\ tasks[i].end_time - tasks[i].start_time > 0

\* the windows configured for the weekday of date d, as instants of d
ConfiguredWindows(d) ==
    LET pairs == IF Weekday(d) \in DOMAIN availability
                 THEN availability[Weekday(d)] ELSE <<>>
    IN {<<DayStart(d) + pairs[k][1], DayStart(d) + pairs[k][2]>> : k \in 1..Len(pairs)}

\* C6: every Phase 1 placement lies inside one window configured for the
\* weekday of its date; a window of the run's own date counts from `now` on
\* and only when it ends after `now`.
C6_Phase1InsideWindow ==
    \A i \in Phase1Placed :
        /\ tasks[i].scheduled_for = DateOf(tasks[i].start_time)
        /\ \E w \in ConfiguredWindows(tasks[i].scheduled_for) :
              /\ tasks[i].end_time <= w[2]
              /\ IF tasks[i].scheduled_for = DateOf(now)
                 THEN w[2] > now /\ Max(w[1], now) <= tasks[i].start_time
                 ELSE w[1] <= tasks[i].start_time

\* a Phase 1 TODO of positive length that starts at `now`, inside a window
\* of today that began before `now`
C6_Witness ==
    \E i \in Phase1Placed :
        /\ tasks[i].start_time = now
        /\ tasks[i].end_time > now
        /\ \E w \in ConfiguredWindows(DateOf(now)) :
              w[1] < now /\ tasks[i].end_time <= w[2]

\* C7: a TODO whose deadline is at or before `now` is never placed by
\* Phase 1; it is in the overflow list and Phase 2 places it.
C7_ExpiredToOverflow ==
    \A i \in Todos :
        (tasks[i].deadline /= NULL /\ tasks[i].deadline <= now) =>
            /\ placedBy[i] /= "phase1"
            /\ pc = "done" => placedBy[i] = "phase2"

\* an expired TODO placed by Phase 2 although a TODO ranked after it found a
\* free slot today in Phase 1
C7_Witness ==
    /\ pc = "done"
    /\ \E a, b \in 1..Len(pending) :
          /\ a < b
          /\ tasks[pending[a]].deadline /= NULL
          /\ tasks[pending[a]].deadline <= now
          /\ placedBy[pending[a]] = "phase2"
          /\ placedBy[pending[b]] = "phase1"
          /\ tasks[pending[b]].scheduled_for = DateOf(now)

\* the rank order is by descending score, and of two Phase 1 TODOs with the
\* same estimate and deadline the one with the higher score starts no later
RankedStartOrder ==
    /\ \A a, b \in 1..Len(pending) :
          a < b => ScoreGeq(Score(pending[a]), Score(pending[b]))
    /\ \A i, j \in Phase1Placed :
          (/\ tasks[i].estimate = tasks[j].estimate
           /\ tasks[i].deadline = tasks[j].deadline
           /\ ScoreGt(Score(i), Score(j)))
              => tasks[i].start_time <= tasks[j].start_time

\* the windows of every weekday are configured in ascending order of start
WindowsAscending ==
    \A wd \in DOMAIN availability :
        \A k \in 1..(Len(availability[wd]) - 1) :
            availability[wd][k][1] <= availability[wd][k + 1][1]

\* C8 (as stated): tasks are placed in descending score order, so that of
\* two Phase 1 TODOs with the same estimate and the same deadline the one
\* with the strictly higher score starts no later than the other.
C8_HigherScoreStartsFirst == RankedStartOrder

\* C8 (amended): the same, when the windows of each weekday are configured
\* in ascending order of their start.
C8_HigherScoreStartsFirstAscending == WindowsAscending => RankedStartOrder

\* ascending windows; the higher-scored TODO got the slot before an EVENT
\* and the other one, same estimate and deadline, skipped over the EVENT
C8_Witness ==
    /\ pc = "done"
    /\ WindowsAscending
    /\ \E i, j \in Phase1Placed, e \in Events :
          /\ tasks[i].estimate = tasks[j].estimate
          /\ tasks[i].deadline = tasks[j].deadline
          /\ ScoreGt(Score(i), Score(j))
          /\ tasks[i].end_time <= tasks[e].start_time
          /\ tasks[e].end_time <= tasks[j].start_time

\* the EVENT tasks whose interval intersects today
TodaysEvents ==
    {e \in Events : /\ Placed(e)
                    /\ tasks[e].start_time < DayEnd(DateOf(now))
                    /\ tasks[e].end_time > DayStart(DateOf(now))}

\* the latest end among today's EVENT intervals clipped to today (the end of
\* the last of the merged intervals), or `now` when no EVENT intersects today
ChainStart ==
    LET ends == {Min(tasks[e].end_time, DayEnd(DateOf(now))) : e \in TodaysEvents}
    IN IF ends = {} THEN now ELSE CHOOSE m \in ends : \A x \in ends : x <= m

\* C9: the first overflow task placed by Phase 2 starts exactly at the end of
\* the last merged EVENT interval of today, or at `now` when there is none.
C9_FirstOverflowStart ==
    (overflow /= <<>> /\ placedBy[overflow[1]] = "phase2")
        => tasks[overflow[1]].start_time = ChainStart

\* two EVENTs of today, the later one clipped at today's end, where the
\* chain starts
C9_Witness ==
    /\ overflow /= <<>>
    /\ placedBy[overflow[1]] = "phase2"
    /\ Cardinality(TodaysEvents) = 2
    /\ tasks[overflow[1]].start_time = DayEnd(DateOf(now))
    /\ \E e \in TodaysEvents : tasks[e].end_time > DayEnd(DateOf(now))

C11_OverflowRankOrder ==
    \A i, j \in Phase2Placed :
        ScoreGt(Score(i), Score(j)) => tasks[i].start_time < tasks[j].start_time

\* the interval of an EVENT of today, clipped to today as Phase 2 clips it
ClippedToday(e) ==
    <<Max(tasks[e].start_time, DayStart(DateOf(now))),
      Min(tasks[e].end_time, DayEnd(DateOf(now)))>>

\* C12: after a completed run the TODO intervals of the overflow chain do not
\* overlap one another, and none overlaps the interval that an EVENT
\* occupies on the run's date.
C12_ChainNoOverlap ==
    pc = "done" =>
        \A i \in Phase2Placed :
            /\ \A j \in Phase2Placed \ {i} : ~Overlap(i, j)
            /\ \A e \in TodaysEvents :
                  ~(/\ tasks[i].start_time < ClippedToday(e)[2]
                    /\ ClippedToday(e)[1] < tasks[i].end_time)

\* a chain of two overflow tasks of positive length behind two separate
\* EVENTs of today, the first of them ending before `now`
C12_Witness ==
    /\ pc = "done"
    /\ Cardinality(Phase2Placed) = 2
    /\ \A i \in Phase2Placed : tasks[i].end_time > tasks[i].start_time
    /\ \E e, f \in TodaysEvents :
          /\ tasks[e].end_time < tasks[f].start_time
          /\ tasks[e].end_time < now

\* the latest end among the intervals, clipped to today, of the EVENTs and of
\* the TODOs placed by Phase 1 that intersect today; `now` when there is none
BusyEndToday ==
    LET busy == {i \in Events \cup Phase1Placed :
                    /\ Placed(i)
                    /\ tasks[i].start_time < DayEnd(DateOf(now))
                    /\ tasks[i].end_time > DayStart(DateOf(now))}
        ends == {Min(tasks[i].end_time, DayEnd(DateOf(now))) : i \in busy}
    IN IF ends = {} THEN now ELSE CHOOSE m \in ends : \A x \in ends : x <= m

\* C13: the first overflow task placed by Phase 2 starts at the end of the
\* latest-ending busy interval of today, the busy intervals being those of
\* the EVENTs and of the TODOs that Phase 1 of the same run placed.
C13_AfterLastBusyOfBothKinds ==
    (overflow /= <<>> /\ placedBy[overflow[1]] = "phase2")
        => tasks[overflow[1]].start_time = BusyEndToday

C17_AbortLeavesCommitted ==
    pc = "aborted" =>
        \A i \in Todos :
            IF placedBy[i] = "none"
            THEN /\ tasks[i].start_time = NULL
                 /\ tasks[i].end_time = NULL
                 /\ tasks[i].scheduled_for = NULL
            ELSE /\ tasks[i].start_time /= NULL
                 /\ tasks[i].end_time = tasks[i].start_time + Est(tasks[i])
                 /\ tasks[i].scheduled_for = DateOf(tasks[i].start_time)

\* a run aborted by the commit of its second placement: the first TODO is
\* placed, the second is cleared
C17_Witness ==
    /\ pc = "aborted"
    /\ \E i, j \in Todos : placedBy[i] /= "none" /\ placedBy[j] = "none"

\* the store as it is when no TODO has ever been scheduled: the store that
\* differs from `store` only in the three scheduling fields of its TODOs
Unscheduled(store) ==
    [i \in DOMAIN store |->
        IF store[i].type = "TODO"
        THEN [store[i] EXCEPT !.start_time = NULL, !.end_time = NULL,
                              !.scheduled_for = NULL]
        ELSE store[i]]

\* C14: a run over a store whose TODOs hold earlier placements ends as the
\* run over the store that differs only in those values, with the same
\* `now`, availability and weights: in the same store, the same way.
C14_FullReplan ==
    /\ pc = "start" =>
          RunResult(tasks, now, availability, weights)
              = RunResult(Unscheduled(tasks), now, availability, weights)
    /\ pc \in {"done", "raised"} =>
          /\ tasks = RunResult(Unscheduled(tasks), now, availability, weights).store
          /\ (pc = "raised")
                 = RunResult(Unscheduled(tasks), now, availability, weights).raised

\* a store about to be run whose two TODOs hold earlier placements inside
\* today's window, the second of which the run moves to another start
C14_Witness ==
    /\ pc = "start"
    /\ Cardinality(Todos) = 2
    /\ \A i \in Todos : tasks[i].start_time /= NULL /\ tasks[i].estimate /= NULL
    /\ LET r == RunResult(tasks, now, availability, weights)
       IN /\ ~r.raised
          /\ \E i \in Todos : /\ r.store[i].start_time /= tasks[i].start_time
                               /\ r.store[i].scheduled_for = DateOf(now)

\* C15: running slot_tasks again on the store that a completed run left
\* gives that store back; running it on the store that an aborted run left
\* (a failed commit, or the scan run off the calendar) ends as the run over
\* the never-scheduled store ends.
C15_RerunIdempotent ==
    /\ pc = "done" =>
          RunResult(tasks, now, availability, weights)
              = [store |-> tasks, raised |-> FALSE]
    /\ pc \in {"aborted", "raised"} =>
          RunResult(tasks, now, availability, weights)
              = RunResult(Unscheduled(tasks), now, availability, weights)

\* a run aborted after its first placement, whose re-run completes and
\* places both TODOs, in Phase 1 the one and in Phase 2 the other
C15_Witness ==
    /\ pc = "aborted"
    /\ \E i, j \in Todos :
          /\ placedBy[i] = "phase1"
          /\ placedBy[j] = "none"
          /\ LET r == RunResult(tasks, now, availability, weights)
             IN /\ ~r.raised
                /\ r.store[i] = tasks[i]
                /\ r.store[j].start_time /= NULL

\* a run is in flight from its Reset to its end
InFlight(p) == p \in {"phase1", "phase2"}

\* C18: at most one run is in flight at any time.
C18_SingleRunInFlight == ~(InFlight(pc) /\ InFlight(other.pc))

\* the phases that placed TODO i, in the run that executes and in the other
PlacedIn(i) ==
    {placedBy[i]} \cup (IF other.pc = "none" THEN {} ELSE {other.placedBy[i]})

\* a run still in flight committed a placement in this run and the row is
\* cleared again: the Reset of the other run took it
LostPlacement ==
    \E i \in Todos :
        /\ tasks[i].start_time = NULL
        /\ \/ InFlight(pc) /\ placedBy[i] /= "none"
           \/ InFlight(other.pc) /\ other.placedBy[i] /= "none"

\* two TODOs that only Phase 1 placed hold intervals that overlap
DoubleBooked ==
    \E i, j \in Todos :
        /\ i /= j
        /\ PlacedIn(i) \subseteq {"phase1", "none"} /\ "phase1" \in PlacedIn(i)
        /\ PlacedIn(j) \subseteq {"phase1", "none"} /\ "phase1" \in PlacedIn(j)
        /\ Placed(i) /\ Placed(j)
        /\ Overlap(i, j)

\* C19: two runs that interleave their store operations reach a corrupted
\* schedule (C19_Witness), and a schedule is corrupted, by a lost placement
\* or by a double booking in Phase 1, only when both runs have passed their
\* Reset.
C19_RaceCorrupts ==
    (LostPlacement \/ DoubleBooked) =>
        /\ pc \notin {"none", "start"}
        /\ other.pc \notin {"none", "start"}

\* both runs have completed, every commit succeeded, and two TODOs of
\* positive length that Phase 1 placed hold overlapping intervals
C19_Witness ==
    /\ pc = "done"
    /\ other.pc = "done"
    /\ DoubleBooked
    /\ \A i \in Todos : tasks[i].end_time > tasks[i].start_time

\* after a completed run every TODO was placed by Phase 2, and the chain
\* holds all of them in rank order, back to back from the end of today's
\* events or from `now`
AllChainedInRankOrder ==
    pc = "done" =>
        /\ \A i \in Todos : placedBy[i] = "phase2"
        /\ overflow = pending
        /\ overflow /= <<>> => tasks[overflow[1]].start_time = ChainStart
        /\ \A k \in 2..Len(overflow) :
              tasks[overflow[k]].start_time = tasks[overflow[k - 1]].end_time

\* C20: with an empty availability configuration the run completes, every
\* TODO is placed by Phase 2, and the TODOs are chained back to back in rank
\* order from `now`, or from the end of today's events.
C20_EmptyAvailabilityAllOverflow ==
    availability = <<>> => (pc /= "raised" /\ AllChainedInRankOrder)

\* the part of C20 that is about the TODOs that have a deadline
C20_WithDeadlines ==
    (availability = <<>> /\ \A i \in Todos : tasks[i].deadline /= NULL)
        => (pc /= "raised" /\ AllChainedInRankOrder)

\* ------------------------------------------------ find_free_slots alone
\* interval a lies within interval b
Within(a, b) == b[1] <= a[1] /\ a[2] <= b[2]
\* intervals a and b share more than an end: an instant of one lies strictly
\* inside the other (a busy interval of zero length inside a slot does)
Intersect(a, b) == a[1] < b[2] /\ b[1] < a[2]

\* C21: every interval that find_free_slots(W, B) returns lies within some
\* window of W and intersects no interval of merge_intervals(B).
C21_SlotsInWindowsOffBusy ==
    Returned("find_free_slots") =>
        LET W == call.args[1]
            merged == merge_intervals(call.args[2])
        IN \A k \in DOMAIN call.ret :
              /\ \E w \in DOMAIN W : Within(call.ret[k], W[w])
              /\ \A m \in DOMAIN merged : ~Intersect(call.ret[k], merged[m])

\* one window, two busy intervals given later first, and two slots cut out
\* of the window around them
C21_Witness ==
    /\ Returned("find_free_slots")
    /\ Len(call.args[1]) = 1
    /\ Len(call.args[2]) = 2
    /\ call.args[2][1][1] > call.args[2][2][1]
    /\ \A b \in DOMAIN call.args[2] : Within(call.args[2][b], call.args[1][1])
    /\ Len(call.ret) = 2

\* the returned slots are pairwise disjoint, in order of start, and each
\* lies within exactly one of the windows given
SlotsDisjointOrderedOneWindow ==
    LET W == call.args[1]
        slots == call.ret
    IN /\ \A k, l \in DOMAIN slots :
             k < l => (slots[k][2] <= slots[l][1] /\ slots[k][1] <= slots[l][1])
       /\ \A k \in DOMAIN slots :
             Cardinality({w \in DOMAIN W : Within(slots[k], W[w])}) = 1

\* the windows are given sorted by start and do not overlap: each starts at
\* or after the end of the one before
WindowsSortedDisjoint ==
    LET W == call.args[1]
    IN \A k \in 1..(Len(W) - 1) : W[k][2] <= W[k + 1][1]

\* C22 (as stated): for any list of windows in the order given and any busy
\* intervals, the slots returned are pairwise disjoint, ordered by start, and
\* each lies within exactly one window.
C22_SlotsDisjointOrdered ==
    Returned("find_free_slots") => SlotsDisjointOrderedOneWindow

\* C22 (amended): the same, for a list of windows sorted by start of which no
\* two overlap; a slot never spans two windows, adjacent ones included.
C22_SlotsDisjointOrderedSortedWindows ==
    (Returned("find_free_slots") /\ WindowsSortedDisjoint)
        => SlotsDisjointOrderedOneWindow

\* two adjacent windows and no busy interval between them: two slots that
\* meet where the windows meet
C22_Witness ==
    /\ Returned("find_free_slots")
    /\ WindowsSortedDisjoint
    /\ Len(call.args[1]) = 2
    /\ call.args[1][1][2] = call.args[1][2][1]
    /\ Len(call.ret) = 2
    /\ call.ret[1][2] = call.ret[2][1]

\* ------------------------------------------------ merge_intervals alone
\* C23: merge_intervals returns intervals sorted by start of which each
\* starts strictly after the one before it ends, touching inputs being
\* merged into one; an empty input gives an empty output.
C23_MergedSortedApart ==
    Returned("merge_intervals") =>
        /\ \A k \in 1..(Len(call.ret) - 1) :
              /\ call.ret[k][1] <= call.ret[k + 1][1]
              /\ call.ret[k][2] < call.ret[k + 1][1]
        /\ call.args[1] = <<>> => call.ret = <<>>

\* three intervals given later first, two of which touch, merged into two
C23_Witness ==
    /\ Returned("merge_intervals")
    /\ LET S == call.args[1]
       IN /\ Len(S) = 3
          /\ S[1][1] > S[2][1]
          /\ \E i, j \in DOMAIN S :
                S[i][1] < S[i][2] /\ S[i][2] = S[j][1] /\ S[j][1] < S[j][2]
          /\ \A i, j \in DOMAIN S : i /= j => ~Intersect(S[i], S[j])
    /\ Len(call.ret) = 2

\* the instants that the intervals of S cover, ends included, on the grid of
\* the half instants: instant t is 2t, the middle of t and t+1 is 2t+1
Covered(S) ==
    { p \in 0..(2 * MaxIntervals) :
        \E k \in DOMAIN S : 2 * S[k][1] <= p /\ p <= 2 * S[k][2] }

\* C24: the intervals that merge_intervals returns cover the instants that
\* the intervals given cover, no fewer and no more.
C24_MergeKeepsUnion ==
    Returned("merge_intervals") => Covered(call.ret) = Covered(call.args[1])

\* an interval given with one that it contains and one apart from both
C24_Witness ==
    /\ Returned("merge_intervals")
    /\ LET S == call.args[1]
       IN /\ Len(S) = 3
          /\ \E i, j \in DOMAIN S :
                i /= j /\ S[i][1] < S[j][1] /\ S[j][2] < S[i][2]
    /\ Len(call.ret) = 2

\* C25: merging what merge_intervals returned gives it back.
C25_MergeIdempotent ==
    Returned("merge_intervals") => merge_intervals(call.ret) = call.ret

\* overlapping intervals given out of order: what is returned differs from
\* what was given, has two intervals, and merges into itself
C25_Witness ==
    /\ Returned("merge_intervals")
    /\ Len(call.args[1]) = 3
    /\ \E i, j \in DOMAIN call.args[1] :
          i < j /\ call.args[1][i][1] > call.args[1][j][1]
                /\ Intersect(call.args[1][i], call.args[1][j])
    /\ Len(call.ret) = 2
    /\ call.ret /= call.args[1]

\* -------------------------------------------- find_busy_intervals alone
\* the rows of the store of the call whose times are both set and whose
\* interval intersects the bounds of the date, [day_start, day_end), day_end
\* being the last instant of the date
OnTheDay ==
    LET store == call.args[1]
        day_start == DayStart(call.args[2])
        day_end == DayEnd(call.args[2])
    IN { i \in DOMAIN store :
           /\ store[i].start_time /= NULL
           /\ store[i].end_time /= NULL
           /\ store[i].start_time < day_end
           /\ day_start < store[i].end_time }

\* the interval of row i of the store of the call, cut to the date
CutToDay(i) ==
    LET row == call.args[1][i]
        day_start == DayStart(call.args[2])
        day_end == DayEnd(call.args[2])
    IN << IF row.start_time < day_start THEN day_start ELSE row.start_time,
          IF row.end_time > day_end THEN day_end ELSE row.end_time >>

C27_BusySortedUnmerged ==
    Returned("find_busy_intervals") =>
        /\ \A k \in 1..(Len(call.ret) - 1) : call.ret[k][1] <= call.ret[k + 1][1]
        /\ Len(call.ret) = Cardinality(OnTheDay)

\* ----------------------------------------- compute_priority_score alone
\* the task, the instant and the weight map of the call, and the score of
\* another task at that instant under that map
ScoredTask == call.args[1]
ScoredWeights == call.args[3]
ScoreOf(task) == compute_priority_score(task, call.args[2], ScoredWeights)
ScoreEq(a, b) == a[1] * b[2] = b[1] * a[2]

\* C28: under a weight map without the key 'priority' the priority of a task
\* adds nothing to its score: the score is that of the same task with any
\* other priority.
C28_AbsentPriorityWeightIsZero ==
    (Returned("compute_priority_score") /\ "priority" \notin DOMAIN ScoredWeights)
        => \A p \in {0, 1, 2} :
              ScoreEq(ScoreOf([ScoredTask EXCEPT !.priority = p]), call.ret)

\* C29: all else equal the score does not fall when the priority rises,
\* under a priority weight > 0, and does not fall when the deadline is
\* nearer, under a deadline weight > 0; a deadline that is past, or at most
\* one minute ahead, adds the whole deadline weight.
C29_ScoreMonotone ==
    Returned("compute_priority_score") =>
        LET w == ScoredWeights
            t == ScoredTask
        IN /\ ("priority" \in DOMAIN w /\ w["priority"] > 0 /\ t.priority /= NULL) =>
                 \A p \in 0..2 :
                    p >= t.priority =>
                       ScoreGeq(ScoreOf([t EXCEPT !.priority = p]), call.ret)
           /\ ("deadline" \in DOMAIN w /\ w["deadline"] > 0 /\ t.deadline /= NULL) =>
                 /\ \A d \in (ScoreNow - 2)..(ScoreNow + 3) :
                       d <= t.deadline =>
                          ScoreGeq(ScoreOf([t EXCEPT !.deadline = d]), call.ret)
                 /\ t.deadline <= call.args[2] + 1 =>
                       /\ call.ret[2] = 1
                       /\ call.ret[1]
                            = ScoreOf([t EXCEPT !.deadline = NULL])[1] + w["deadline"]

\* a task of priority 1 whose deadline is past, scored under positive
\* weights: a higher priority scores strictly more, a deadline ahead
\* strictly less
C29_Witness ==
    /\ Returned("compute_priority_score")
    /\ "priority" \in DOMAIN ScoredWeights /\ ScoredWeights["priority"] > 0
    /\ "deadline" \in DOMAIN ScoredWeights /\ ScoredWeights["deadline"] > 0
    /\ ScoredTask.priority = 1
    /\ ScoredTask.deadline /= NULL /\ ScoredTask.deadline < call.args[2]
    /\ ScoreGt(ScoreOf([ScoredTask EXCEPT !.priority = 2]), call.ret)
    /\ ScoreGt(call.ret, ScoreOf([ScoredTask EXCEPT !.deadline = ScoreNow + 3]))

\* ------------------------------------------- the placement of Phase 1
\* the free slots of the date at `offset` days from `now`, against the store
\* as it is at the task's turn
SlotsOn(offset) ==
    find_free_slots(WindowsAt(availability, now, offset),
                    find_busy_intervals(tasks, DateOf(now) + offset))

\* the candidate of a task in a slot fits inside the slot and ends by the
\* deadline
Accepted(slot, task) ==
    LET end_candidate == Max(slot[1], now) + Est(task)
    IN /\ end_candidate <= slot[2]
       /\ task.deadline /= NULL => end_candidate <= task.deadline

\* a step in which Phase 1 places the task at its turn
Phase1Places ==
    /\ pc = "phase1"
    /\ idx <= Len(pending)
    /\ placedBy[pending[idx]] = "none"
    /\ placedBy'[pending[idx]] = "phase1"

\* C30: the placement of Phase 1 starts at the start of a free slot of its
\* date, computed against the busy set at the task's turn, whose candidate
\* is accepted; no earlier slot of that date and no slot of an earlier date,
\* from today on, has an accepted candidate.
C30_FirstAcceptedCandidate ==
    [][Phase1Places =>
          LET id == pending[idx]
              start_time == tasks'[id].start_time
              offset == DateOf(start_time) - DateOf(now)
              slots == SlotsOn(offset)
          IN /\ offset >= 0
             /\ tasks'[id].end_time = start_time + Est(tasks[id])
             /\ \E j \in DOMAIN slots :
                   /\ slots[j][1] = start_time
                   /\ Accepted(slots[j], tasks[id])
                   /\ \A i \in 1..(j - 1) : ~Accepted(slots[i], tasks[id])
             /\ \A earlier \in 0..(offset - 1) :
                   \A i \in DOMAIN SlotsOn(earlier) :
                      ~Accepted(SlotsOn(earlier)[i], tasks[id])]_vars

\* a TODO that Phase 1 placed tomorrow although today has a window after
\* `now`, and a TODO that it placed today
C30_Witness ==
    /\ WindowsAt(availability, now, 0) /= <<>>
    /\ \E i, j \in Todos :
          /\ placedBy[i] = "phase1"
          /\ tasks[i].scheduled_for = DateOf(now) + 1
          /\ tasks[i].estimate /= NULL
          /\ placedBy[j] = "phase1"
          /\ tasks[j].scheduled_for = DateOf(now)

\* ------------------------------------------------ deferral to Phase 2
\* a step that ends the turn of a task in the Phase 1 loop
TurnEnds == pc = "phase1" /\ idx <= Len(pending) /\ idx' = idx + 1

\* no free slot of a date from today through the date of the deadline of
\* the task, against the store at the task's turn, has an accepted candidate
NoCandidateThroughDeadline(task) ==
    \A offset \in 0..(DateOf(task.deadline) - DateOf(now)) :
        \A k \in DOMAIN SlotsOn(offset) : ~Accepted(SlotsOn(offset)[k], task)

\* C31: a TODO whose deadline is after `now` is deferred to Phase 2 exactly
\* when, at its turn, no free slot of any date from today through the date
\* of the deadline admits a candidate that fits the slot and ends by the
\* deadline.
C31_DeferredIffNoCandidate ==
    [][(TurnEnds /\ Cur.deadline /= NULL /\ Cur.deadline > now) =>
          ((overflow' = Append(overflow, pending[idx]))
              <=> NoCandidateThroughDeadline(Cur))]_vars

\* a completed run with a window left today after `now`, in which Phase 2
\* placed a TODO of estimate 2 whose deadline is tomorrow
C31_Witness ==
    /\ pc = "done"
    /\ WindowsAt(availability, now, 0) /= <<>>
    /\ WindowsAt(availability, now, 1) /= <<>>
    /\ \E i \in Phase2Placed :
          /\ tasks[i].deadline /= NULL
          /\ DateOf(tasks[i].deadline) = DateOf(now) + 1
          /\ tasks[i].estimate = 2

\* ------------------------------------------------- the end of the scan
\* the day offset of the date of the deadline of a task, 0 when it is past
DeadlineOffset(task) == Max(DateOf(task.deadline) - DateOf(now), 0)

\* C32: the day scan of a TODO with a deadline goes no further than the day
\* after the date of the deadline, where it stops without looking at the
\* windows, and Phase 1 places the TODO on no later date than that of the
\* deadline; a run whose TODOs all have a deadline, on a date before the
\* last one of the calendar, does not run off the calendar.
C32_ScanStopsAfterDeadlineDate ==
    /\ (pc = "phase1" /\ idx <= Len(pending) /\ Cur.deadline /= NULL) =>
          day_offset <= DeadlineOffset(Cur) + 1
    /\ \A i \in Phase1Placed :
          tasks[i].deadline /= NULL =>
             tasks[i].scheduled_for <= DateOf(tasks[i].deadline)
    /\ (\A i \in Todos : /\ tasks[i].deadline /= NULL
                         /\ DeadlineOffset(tasks[i]) < MaxDayOffset)
          => pc /= "raised"

\* the scan of a TODO whose deadline is tomorrow has looked at today and at
\* tomorrow and stands at the day after, where it stops
C32_Witness ==
    /\ pc = "phase1"
    /\ idx <= Len(pending)
    /\ Cur.deadline /= NULL
    /\ DeadlineOffset(Cur) = 1
    /\ day_offset = 2
    /\ WindowsAt(availability, now, 1) /= <<>>

\* C33: the day scan of a task fails to end only when the task has no
\* deadline and no date that the scan looked at had an availability window.
\* A scan that does not end is one that runs off the calendar.
C33_EndlessOnlyWithoutWindows ==
    pc = "raised" =>
        /\ Cur.deadline = NULL
        /\ \A offset \in 0..MaxDayOffset : WindowsAt(availability, now, offset) = <<>>

\* --------------------------------------- find_free_slots loses nothing
\* instant p of the grid of the half instants lies in interval iv, ends
\* included
HasInstant(iv, p) == 2 * iv[1] <= p /\ p <= 2 * iv[2]

\* the windows of the call that have a length: a window that starts where
\* it ends holds no time
LongWindows == SelectSeq(call.args[1], LAMBDA w : w[1] < w[2])

\* C34: every instant that lies in a window and in no busy interval lies in
\* a returned slot; without busy intervals the slots are the windows, and
\* when every window lies within a busy interval there is no slot.
C34_NoFreeTimeLost ==
    Returned("find_free_slots") =>
        LET W == LongWindows
            B == call.args[2]
        IN /\ \A p \in 0..(2 * MaxIntervals) :
                 (/\ \E w \in DOMAIN W : HasInstant(W[w], p)
                  /\ \A b \in DOMAIN B : ~HasInstant(B[b], p))
                    => \E k \in DOMAIN call.ret : HasInstant(call.ret[k], p)
           /\ B = <<>> => call.ret = W
           /\ (\A w \in DOMAIN W : \E b \in DOMAIN B : Within(W[w], B[b]))
                 => call.ret = <<>>

\* a window with two busy intervals inside it that leave free time before,
\* between and after them: three slots
C34_Witness ==
    /\ Returned("find_free_slots")
    /\ Len(call.args[1]) = 1
    /\ Len(call.args[2]) = 2
    /\ Len(call.ret) = 3

\* ------------------------------------------------- the store after a run
\* C35: the overflow list holds only TODOs that have a deadline, and no TODO
\* without deadline is placed by Phase 2: its turn in Phase 1 ends only by
\* its placement.
C35_NoDeadlineNeverOverflows ==
    /\ \A k \in DOMAIN overflow : tasks[overflow[k]].deadline /= NULL
    /\ \A i \in Todos : tasks[i].deadline = NULL => placedBy[i] /= "phase2"
    /\ \A k \in 1..(idx - 1) :
          tasks[pending[k]].deadline = NULL => placedBy[pending[k]] = "phase1"

\* a completed run in which a TODO without deadline found its slot on a
\* later date than today while a TODO with a deadline went to Phase 2
C35_Witness ==
    /\ pc = "done"
    /\ \E i, j \in Todos :
          /\ tasks[i].deadline = NULL
          /\ placedBy[i] = "phase1"
          /\ tasks[i].scheduled_for > DateOf(now)
          /\ tasks[j].deadline /= NULL
          /\ placedBy[j] = "phase2"

\* C36: after a completed run no TODO starts before the `now` of the run,
\* whichever phase placed it.
C36_NoStartBeforeNow ==
    pc = "done" => \A i \in Todos : tasks[i].start_time >= now

\* C37: after a completed run no two TODOs overlap, whichever phase placed
\* them.
C37_NoTodoOverlap ==
    pc = "done" => \A i, j \in Todos : i /= j => ~Overlap(i, j)

\* C38: after a completed run no TODO that Phase 2 placed overlaps an EVENT,
\* whatever the date of the EVENT, the whole of its interval counted.
C38_ChainOffEveryEvent ==
    pc = "done" =>
        \A i \in Phase2Placed : \A e \in Events : Placed(e) => ~Overlap(i, e)

\* the three scheduling fields of a TODO all unset
FieldsUnset(i) ==
    /\ tasks[i].scheduled_for = NULL
    /\ tasks[i].start_time = NULL
    /\ tasks[i].end_time = NULL

\* the three fields all set, the date that of the start, the end not before
\* the start
FieldsSetTogether(i) ==
    /\ tasks[i].scheduled_for /= NULL
    /\ tasks[i].start_time /= NULL
    /\ tasks[i].end_time /= NULL
    /\ tasks[i].scheduled_for = DateOf(tasks[i].start_time)
    /\ tasks[i].end_time >= tasks[i].start_time

\* C39: in every committed state of the store from the Reset commit of a run
\* onwards, each TODO has scheduled_for, start_time and end_time all unset or
\* all set; when set, scheduled_for is the date of start_time and end_time is
\* not before start_time.
C39_FieldsTogether ==
    pc /= "start" => \A i \in Todos : FieldsUnset(i) \/ FieldsSetTogether(i)

\* a run between two commits: one TODO placed on a later date, one still as
\* Reset left it
C39_Witness ==
    /\ pc \in {"phase1", "phase2"}
    /\ \E i, j \in Todos :
          /\ FieldsSetTogether(i)
          /\ tasks[i].scheduled_for > DateOf(now)
          /\ FieldsUnset(j)

\* one step of a run after Reset: a placed TODO keeps its row, a row changes
\* only by the first placement of its TODO, Phase 1 places nothing once
\* Phase 2 has placed, and the set of placed TODOs does not shrink
WrittenAtMostOnce ==
    /\ \A i \in Todos : Placed(i) => tasks'[i] = tasks[i]
    /\ \A i \in Todos :
          tasks'[i] /= tasks[i] => (placedBy[i] = "none" /\ placedBy'[i] /= "none")
    /\ \A i \in Todos :
          (placedBy[i] = "none" /\ placedBy'[i] = "phase1") => Phase2Placed = {}
    /\ \A i \in Todos : tasks[i].start_time /= NULL => tasks'[i].start_time /= NULL

\* the step that ends the run, by its return or by an exception of the scan,
\* leaves every TODO placed
EndsWithEveryTodoPlaced ==
    pc' \in {"done", "raised"} => \A i \in Todos : tasks'[i].start_time /= NULL

\* C40: within one run, after the Reset commit, the scheduling fields of each
\* TODO are written exactly once: a committed placement is never changed or
\* cleared, every Phase 1 commit precedes every Phase 2 commit, and the set
\* of placed TODOs grows until it contains every TODO.
C40_WrittenExactlyOnce ==
    [][pc /= "start" => (WrittenAtMostOnce /\ EndsWithEveryTodoPlaced)]_vars

====
